---- MODULE Spec2Model ----
(***************************************************************************)
(* Temperature-measurement table: the record model, the line parser and    *)
(* the load / add / delete handlers of MainWindow.                         *)
(*                                                                         *)
(* The repository holds the program twice: src/main.py and                 *)
(* src/Lab1.1/main.py.  They differ in one place: Lab1.1 checks a date     *)
(* against a pattern (validate_date) before converting it, src/main.py     *)
(* only converts it.  The variable build says which of the two runs.       *)
(*                                                                         *)
(* Text is a sequence of tokens.  A token is one character (used for the   *)
(* dates, the values, the separator ";" and white space) or a chunk of     *)
(* characters that holds no separator and no white space (used for the     *)
(* labels, the locations and the details).  The localized labels           *)
(* "Нормальное измерение" / "Аномальное измерение" are written "Normal     *)
(* measurement" / "Abnormal measurement", and the type choices             *)
(* "Нормальное" / "Аномальное" of the entry form "Normal" / "Abnormal".    *)
(***************************************************************************)
EXTENDS Integers, Sequences, FiniteSets, TLC

VARIABLES build, measurements, table, currentRow, last, call

vars == <<build, measurements, table, currentRow, last, call>>

\* bounds of the model
MaxRecords == 2
MaxLines == 2

Root == "src/main.py"
Lab == "src/Lab1.1/main.py"
Builds == {Root, Lab}

NormalLabel == <<"Normal measurement">>
AbnormalLabel == <<"Abnormal measurement">>

----------------------------------------------------------------------------
\* characters

Digits == {"0", "1", "2", "3", "4", "5", "6", "7", "8", "9"}

DigitVal(c) ==
  CASE c = "0" -> 0 [] c = "1" -> 1 [] c = "2" -> 2 [] c = "3" -> 3
    [] c = "4" -> 4 [] c = "5" -> 5 [] c = "6" -> 6 [] c = "7" -> 7
    [] c = "8" -> 8 [] c = "9" -> 9

DigitChar(n) ==
  CASE n = 0 -> "0" [] n = 1 -> "1" [] n = 2 -> "2" [] n = 3 -> "3"
    [] n = 4 -> "4" [] n = 5 -> "5" [] n = 6 -> "6" [] n = 7 -> "7"
    [] n = 8 -> "8" [] n = 9 -> "9"

\* the characters str.strip() removes
Whitespace == {" ", "\t", "\n", "\r"}

IsDigits(s) == \A i \in 1..Len(s) : s[i] \in Digits

RECURSIVE NumVal(_)
NumVal(s) ==
  IF s = <<>> THEN 0
  ELSE 10 * NumVal(SubSeq(s, 1, Len(s) - 1)) + DigitVal(s[Len(s)])

RECURSIVE NatChars(_)
NatChars(n) ==
  IF n < 10 THEN <<DigitChar(n)>>
  ELSE Append(NatChars(n \div 10), DigitChar(n % 10))

\* a number n >= 0 written with at least w digits (zero padded)
RECURSIVE Pad(_, _)
Pad(s, w) == IF Len(s) >= w THEN s ELSE Pad(<<"0">> \o s, w)

----------------------------------------------------------------------------
\* str.strip() and str.split(sep)

RECURSIVE LStrip(_)
LStrip(s) ==
  IF s # <<>> /\ s[1] \in Whitespace THEN LStrip(Tail(s)) ELSE s

RECURSIVE RStrip(_)
RStrip(s) ==
  IF s # <<>> /\ s[Len(s)] \in Whitespace
  THEN RStrip(SubSeq(s, 1, Len(s) - 1))
  ELSE s

Strip(s) == RStrip(LStrip(s))

\* the index of the first sep in s, 0 when there is none
RECURSIVE Find(_, _, _)
Find(s, sep, i) ==
  IF i > Len(s) THEN 0
  ELSE IF s[i] = sep THEN i
  ELSE Find(s, sep, i + 1)

\* s.split(sep): the empty text yields one empty field
RECURSIVE Split(_, _)
Split(s, sep) ==
  LET i == Find(s, sep, 1) IN
    IF i = 0 THEN <<s>>
    ELSE <<SubSeq(s, 1, i - 1)>> \o Split(SubSeq(s, i + 1, Len(s)), sep)

----------------------------------------------------------------------------
\* dates

\* re.match(pattern, date_str) for the pattern
\* ^(0[1-9]|[12][0-9]|3[01])\.(0[1-9]|1[0-2])\.(19|20)\d{2}$
DayPattern(a, b) ==
  \/ a = "0" /\ b \in Digits \ {"0"}
  \/ a \in {"1", "2"} /\ b \in Digits
  \/ a = "3" /\ b \in {"0", "1"}

MonthPattern(a, b) ==
  \/ a = "0" /\ b \in Digits \ {"0"}
  \/ a = "1" /\ b \in {"0", "1", "2"}

CenturyPattern(a, b) == (a = "1" /\ b = "9") \/ (a = "2" /\ b = "0")

PatternBody(s) ==
  /\ Len(s) = 10
  /\ DayPattern(s[1], s[2])
  /\ s[3] = "."
  /\ MonthPattern(s[4], s[5])
  /\ s[6] = "."
  /\ CenturyPattern(s[7], s[8])
  /\ s[9] \in Digits
  /\ s[10] \in Digits

\* $ also matches before one final newline
MatchesPattern(s) ==
  \/ PatternBody(s)
  \/ Len(s) = 11 /\ s[11] = "\n" /\ PatternBody(SubSeq(s, 1, 10))

\* validate_date returns True or raises ValueError: TRUE iff it returns
validate_date(date_str) == MatchesPattern(date_str)

\* the texts strptime takes for %d: 3[0-1]|[1-2]\d|0[1-9]|[1-9]| [1-9]
DirectiveD(s) ==
  \/ Len(s) = 2 /\ DayPattern(s[1], s[2])
  \/ Len(s) = 1 /\ s[1] \in Digits \ {"0"}
  \/ Len(s) = 2 /\ s[1] = " " /\ s[2] \in Digits \ {"0"}

\* the texts strptime takes for %m: 1[0-2]|0[1-9]|[1-9]
DirectiveM(s) ==
  \/ Len(s) = 2 /\ MonthPattern(s[1], s[2])
  \/ Len(s) = 1 /\ s[1] \in Digits \ {"0"}

\* the texts strptime takes for %Y: \d\d\d\d
DirectiveY(s) == Len(s) = 4 /\ IsDigits(s)

IsLeap(y) == y % 4 = 0 /\ (y % 100 # 0 \/ y % 400 = 0)

DaysInMonth(y, m) ==
  IF m = 2 THEN (IF IsLeap(y) THEN 29 ELSE 28)
  ELSE IF m \in {4, 6, 9, 11} THEN 30
  ELSE 31

\* strptime without the check of the day against the month
strptime_no_calendar(s) ==
  LET parts == Split(s, ".")
  IN IF /\ Len(parts) = 3
        /\ DirectiveD(parts[1])
        /\ DirectiveM(parts[2])
        /\ DirectiveY(parts[3])
     THEN [ok |-> TRUE, day |-> NumVal(LStrip(parts[1])),
           month |-> NumVal(parts[2]), year |-> NumVal(parts[3])]
     ELSE [ok |-> FALSE]

\* datetime.strptime(s, "%d.%m.%Y"): the date, or ok = FALSE for ValueError
\* (the text does not match the format, text remains after the year, or the
\* day does not exist in the month)
strptime(s) ==
  LET parts == Split(s, ".")
      d == NumVal(LStrip(parts[1]))
      m == NumVal(parts[2])
      y == NumVal(parts[3])
  IN IF /\ Len(parts) = 3
        /\ DirectiveD(parts[1])
        /\ DirectiveM(parts[2])
        /\ DirectiveY(parts[3])
        /\ y >= 1
        /\ d <= DaysInMonth(y, m)
     THEN [ok |-> TRUE, day |-> d, month |-> m, year |-> y]
     ELSE [ok |-> FALSE]

\* date.strftime("%d-%m-%Y")
strftime(dt) ==
  Pad(NatChars(dt.day), 2) \o <<"-">> \o Pad(NatChars(dt.month), 2)
    \o <<"-">> \o Pad(NatChars(dt.year), 4)

----------------------------------------------------------------------------
\* numbers: a value is an integer number of thousandths

\* float(text), ok = FALSE for ValueError.  The grammar modelled is
\* [white space] [sign] digits [. [digits]] | [sign] . digits [white space]
\* with at most three digits after the point.
UnsignedFloat(s) ==
  LET parts == Split(s, ".")
      ip == parts[1]
      fp == IF Len(parts) = 2 THEN parts[2] ELSE <<>>
  IN IF /\ Len(parts) \in {1, 2}
        /\ IsDigits(ip) /\ IsDigits(fp)
        /\ Len(ip) + Len(fp) > 0
        /\ Len(fp) <= 3
     THEN [ok |-> TRUE,
           v |-> 1000 * NumVal(ip)
                 + NumVal(fp \o [i \in 1..(3 - Len(fp)) |-> "0"])]
     ELSE [ok |-> FALSE]

float(text) ==
  LET s == Strip(text)
      signed == s # <<>> /\ s[1] \in {"+", "-"}
      u == UnsignedFloat(IF signed THEN Tail(s) ELSE s)
  IN IF u.ok /\ signed /\ s[1] = "-" THEN [ok |-> TRUE, v |-> 0 - u.v] ELSE u

\* f"{value:.2f}": two decimals, a tie rounded to the even digit (the ties
\* among the values of the model are exact binary fractions)
Format2(v) ==
  LET a == IF v < 0 THEN 0 - v ELSE v
      q == a \div 10
      r == a % 10
      h == IF r > 5 \/ (r = 5 /\ q % 2 = 1) THEN q + 1 ELSE q
  IN (IF v < 0 THEN <<"-">> ELSE <<>>)
       \o NatChars(h \div 100) \o <<".">> \o Pad(NatChars(h % 100), 2)

----------------------------------------------------------------------------
\* the record model

Measurement(status, date, location, value) ==
  [status |-> status, date |-> date, location |-> location, value |-> value]

NormalMeasurement(date, location, value, sensor_type) ==
  [cls |-> "NormalMeasurement", sensor_type |-> sensor_type]
    @@ Measurement(NormalLabel, date, location, value)

\* the abnormal record built with the label of the normal one
AbnormalMeasurementWrongStatus(date, location, value, reason) ==
  [cls |-> "AbnormalMeasurement", reason |-> reason]
    @@ Measurement(NormalLabel, date, location, value)

AbnormalMeasurement(date, location, value, reason) ==
  [cls |-> "AbnormalMeasurement", reason |-> reason]
    @@ Measurement(AbnormalLabel, date, location, value)

BaseRow(r) == <<r.status, r.date, r.location, Format2(r.value)>>

to_table_row(r) ==
  IF r.cls = "NormalMeasurement" THEN BaseRow(r) \o <<r.sensor_type>>
  ELSE BaseRow(r) \o <<r.reason>>

----------------------------------------------------------------------------
\* the line parser

\* a call returns a value or raises; err names the raise
Ok(v) == [ok |-> TRUE, val |-> v]
Raise(e) == [ok |-> FALSE, err |-> e]

\* the date stage: Lab1.1 validates the text, then both programs convert it
\* src/Lab1.1/main.py 64-65, src/main.py 54
ConvertDate(b, text) ==
  IF b = Lab /\ ~validate_date(text) THEN Raise("InvalidDateError")
  ELSE IF ~strptime(text).ok THEN Raise("DateValueError")
  ELSE Ok(strftime(strptime(text)))

\* parse_line converting the value before the date
ParseFieldsValueFirst(b, fields) ==
  IF Len(fields) < 5 THEN Raise("MalformedLineError")
  ELSE
    LET date == ConvertDate(b, fields[2])
        value == float(fields[4])
    IN IF ~value.ok THEN Raise("ConversionError")
       ELSE IF ~date.ok THEN date
       ELSE IF fields[1] = NormalLabel
         THEN Ok(NormalMeasurement(date.val, fields[3], value.v, fields[5]))
       ELSE IF fields[1] = AbnormalLabel
         THEN Ok(AbnormalMeasurement(date.val, fields[3], value.v, fields[5]))
       ELSE Raise("UnknownVariantError")

\* parse_line taking the last field, not field 4, as the detail
ParseFieldsLastField(b, fields) ==
  IF Len(fields) < 5 THEN Raise("MalformedLineError")
  ELSE
    LET date == ConvertDate(b, fields[2])
        value == float(fields[4])
        detail == fields[Len(fields)]
    IN IF ~date.ok THEN date
       ELSE IF ~value.ok THEN Raise("ConversionError")
       ELSE IF fields[1] = NormalLabel
         THEN Ok(NormalMeasurement(date.val, fields[3], value.v, detail))
       ELSE IF fields[1] = AbnormalLabel
         THEN Ok(AbnormalMeasurement(date.val, fields[3], value.v, detail))
       ELSE Raise("UnknownVariantError")

\* parse_line after the split
ParseFields(b, fields) ==
  IF Len(fields) < 5 THEN Raise("MalformedLineError")
  ELSE
    LET date == ConvertDate(b, fields[2])
        location == fields[3]
        value == float(fields[4])
    IN IF ~date.ok THEN date
       ELSE IF ~value.ok THEN Raise("ConversionError")
       ELSE IF fields[1] = NormalLabel
         THEN Ok(NormalMeasurement(date.val, location, value.v, fields[5]))
       ELSE IF fields[1] = AbnormalLabel
         THEN Ok(AbnormalMeasurement(date.val, location, value.v, fields[5]))
       ELSE Raise("UnknownVariantError")

parse_line(b, line) == ParseFields(b, Split(Strip(line), ";"))

\* the loop with a test that skips the lines that are empty once stripped
RECURSIVE LoadLinesSkipEmpty(_, _, _)
LoadLinesSkipEmpty(b, lines, acc) ==
  IF lines = <<>> THEN Ok(acc)
  ELSE IF Strip(Head(lines)) = <<>>
    THEN LoadLinesSkipEmpty(b, Tail(lines), acc)
  ELSE LET m == parse_line(b, Head(lines))
       IN IF m.ok THEN LoadLinesSkipEmpty(b, Tail(lines), Append(acc, m.val))
          ELSE m

\* the loop of load_measurements_from_file over the lines left, with the
\* records built so far
RECURSIVE LoadLines(_, _, _)
LoadLines(b, lines, acc) ==
  IF lines = <<>> THEN Ok(acc)
  ELSE LET m == parse_line(b, Head(lines))
       IN IF m.ok THEN LoadLines(b, Tail(lines), Append(acc, m.val))
          ELSE m

\* a file is [readable, lines]; open() raises on one that cannot be read
load_measurements_from_file(b, file) ==
  IF ~file.readable THEN Raise("FileAccessError")
  ELSE LoadLines(b, file.lines, <<>>)

----------------------------------------------------------------------------
\* the inputs: texts of files and of the entry form

DateGood == <<"1", "5", ".", "0", "6", ".", "2", "0", "2", "3">>
DateFeb31 == <<"3", "1", ".", "0", "2", ".", "2", "0", "2", "0">>
DateLeap == <<"2", "9", ".", "0", "2", ".", "2", "0", "2", "0">>
DateShort == <<"1", ".", "2", ".", "2", "0", "2", "0">>
DateOld == <<"0", "1", ".", "0", "2", ".", "1", "8", "0", "0">>
DateMonth13 == <<"1", "5", ".", "1", "3", ".", "2", "0", "2", "0">>
DateJunk == <<"soon">>

LineDates ==
  {DateGood, DateFeb31, DateLeap, DateShort, DateOld, DateMonth13, DateJunk}

LineLabels == {NormalLabel, AbnormalLabel, <<"Unknown">>, <<"Normal">>}

ValueGood == <<"2", "3", ".", "5", "0">>
ValueNeg == <<"-", "4", ".", "1", "2", "5">>
LineValues == {ValueGood, ValueNeg, <<"notanumber">>, <<>>}

LineDetails == {<<"ThermoX">>, <<>>}

\* what follows field 4: nothing, white space, or further fields
LineTails == {<<>>, <<" ">>, <<";", "more">>, <<" ", ";", "more", ";">>}

Join(f1, f2, f3, f4, f5) ==
  f1 \o <<";">> \o f2 \o <<";">> \o f3 \o <<";">> \o f4 \o <<";">> \o f5

Newline == <<"\n">>

FullLines ==
  {Join(l, d, <<"Lab">>, v, x) \o t \o Newline :
     l \in LineLabels, d \in LineDates, v \in LineValues,
     x \in LineDetails, t \in LineTails}

\* lines with fewer than five fields, the empty line among them
ShortLines ==
  { Newline,
    <<" ", "\t">> \o Newline,
    NormalLabel \o Newline,
    NormalLabel \o <<";">> \o DateGood \o <<";", "Lab", ";">> \o ValueGood,
    <<"Unknown", ";", "soon", ";", "Lab", ";", "notanumber">> \o Newline,
    <<";", ";", ";">> \o Newline }

\* lines with white space in front, and a last line without its newline
OddLines ==
  { <<" ">> \o Join(NormalLabel, DateGood, <<"Lab">>, ValueGood, <<"ThermoX">>),
    <<"\t">> \o Join(AbnormalLabel, DateGood, <<"Lab">>, <<" ">> \o ValueNeg,
                     <<"ThermoX">>) \o <<"\r">> \o Newline,
    Join(NormalLabel, <<" ">> \o DateShort, <<"Lab">>, ValueGood, <<"ThermoX">>),
    Join(NormalLabel, DateGood \o <<" ">>, <<"Lab">>, ValueGood, <<"ThermoX">>) }

Lines == FullLines \cup ShortLines \cup OddLines

LineNormal ==
  Join(NormalLabel, DateGood, <<"Lab">>, ValueGood, <<"ThermoX">>) \o Newline
LineAbnormal ==
  Join(AbnormalLabel, DateGood, <<"Lab">>, ValueGood, <<"ThermoX">>)
    \o <<";", "more">> \o Newline
LineOld ==
  Join(NormalLabel, DateOld, <<"Lab">>, ValueGood, <<"ThermoX">>) \o Newline
LineFeb31 ==
  Join(NormalLabel, DateFeb31, <<"Lab">>, ValueGood, <<"ThermoX">>) \o Newline

\* the lines the files are made of
FileLines == {LineNormal, LineAbnormal, LineFeb31, Newline}

RECURSIVE SeqsUpTo(_, _)
SeqsUpTo(S, n) ==
  IF n = 0 THEN {<<>>}
  ELSE LET shorter == SeqsUpTo(S, n - 1)
       IN shorter \cup {Append(q, x) : q \in shorter, x \in S}

FilesOf(S) ==
  {[readable |-> TRUE, lines |-> ls] : ls \in SeqsUpTo(S, MaxLines)}
    \cup {[readable |-> FALSE, lines |-> <<>>]}

Files == FilesOf(FileLines)

\* the files the window is given
GuiFiles == FilesOf({LineNormal, LineAbnormal, LineFeb31})

\* what the prompts of the entry form return; a cancelled prompt returns its
\* default with ok = FALSE, a prompt that is not reached is left at that too
FormTypes == {"Normal", "Abnormal"}
FormDates == {DateGood, DateFeb31, DateOld}
FormValue == 23500

Forms ==
  {f \in [type_choice : FormTypes, ok : BOOLEAN,
          date : FormDates \cup {<<>>}, ok1 : BOOLEAN,
          location : {<<"Lab">>, <<>>}, ok2 : BOOLEAN,
          value : {FormValue, 0}, ok3 : BOOLEAN,
          detail : {<<"ThermoX">>, <<>>}, ok4 : BOOLEAN] :
     /\ f.ok1 <=> f.date # <<>>
     /\ f.ok2 <=> f.location # <<>>
     /\ f.ok3 <=> f.value # 0
     /\ f.ok4 <=> f.detail # <<>>
     /\ ~f.ok => f.type_choice = "Normal" /\ ~f.ok1 /\ ~f.ok2 /\ ~f.ok3
     /\ ~(f.ok /\ f.ok1 /\ f.ok2 /\ f.ok3) => ~f.ok4}

----------------------------------------------------------------------------
\* the window

\* update_table without setRowCount(0): the rows are added to the old ones
update_table_no_clear(ms) == table \o [i \in 1..Len(ms) |-> to_table_row(ms[i])]

\* update_table: the rows of the records, in their order
update_table(ms) == [i \in 1..Len(ms) |-> to_table_row(ms[i])]

\* list.pop(i), 0 <= i < len
Pop(ms, i) == SubSeq(ms, 1, i) \o SubSeq(ms, i + 2, Len(ms))

Init ==
  /\ build \in Builds
  /\ measurements = <<>>
  /\ table = <<>>
  /\ currentRow = -1
  /\ last = [op |-> "init"]
  /\ call = [fn |-> "none"]

\* load_measurements_from_file on each file the dialog can return, worked out
\* once
LoadResults ==
  [b \in Builds |-> [f \in GuiFiles |-> load_measurements_from_file(b, f)]]

\* load_file emptying the collection before it reads the file
LoadChosenClearsFirst(file) ==
  LET r == LoadResults[build][file]
  IN IF r.ok
     THEN /\ measurements' = r.val
          /\ table' = update_table(r.val)
          /\ currentRow' = -1
          /\ last' = [op |-> "load", before |-> measurements,
                      input |-> file, outcome |-> "ok"]
     ELSE /\ measurements' = <<>>
          /\ UNCHANGED <<table, currentRow>>
          /\ last' = [op |-> "load", before |-> measurements,
                      input |-> file, outcome |-> "error", err |-> r.err]

\* load_file adding the records of the file to the collection
LoadChosenExtends(file) ==
  LET r == LoadResults[build][file]
  IN IF r.ok
     THEN /\ measurements' = measurements \o r.val
          /\ table' = update_table(measurements')
          /\ currentRow' = -1
          /\ last' = [op |-> "load", before |-> measurements,
                      input |-> file, outcome |-> "ok"]
     ELSE /\ UNCHANGED <<measurements, table, currentRow>>
          /\ last' = [op |-> "load", before |-> measurements,
                      input |-> file, outcome |-> "error", err |-> r.err]

\* what load_file does with the file of the dialog once one is chosen
LoadChosen(file) ==
  LET r == LoadResults[build][file]
  IN IF r.ok
     THEN /\ measurements' = r.val
          /\ table' = update_table(r.val)
          /\ currentRow' = -1
          /\ last' = [op |-> "load", before |-> measurements,
                      input |-> file, outcome |-> "ok"]
     ELSE /\ UNCHANGED <<measurements, table, currentRow>>
          /\ last' = [op |-> "load", before |-> measurements,
                      input |-> file, outcome |-> "error", err |-> r.err]

\* load_file with a file chosen in the dialog
LoadFile ==
  /\ \E file \in GuiFiles : LoadChosen(file)
  /\ UNCHANGED <<build, call>>

\* load_file with the dialog cancelled: file_path is empty
LoadCancel ==
  /\ last' = [op |-> "load", before |-> measurements, outcome |-> "cancel"]
  /\ UNCHANGED <<build, measurements, table, currentRow, call>>

\* the try block of add_measurement: the record, or the raise
BuildRecord(b, f) ==
  LET date == ConvertDate(b, f.date)
  IN IF ~date.ok THEN date
     ELSE IF f.type_choice = "Normal"
       THEN Ok(NormalMeasurement(date.val, f.location, f.value, f.detail))
     ELSE Ok(AbnormalMeasurement(date.val, f.location, f.value, f.detail))

Cancelled(f) == ~f.ok \/ ~(f.ok1 /\ f.ok2 /\ f.ok3) \/ ~f.ok4

\* add_measurement without the return on a cancelled detail prompt
AddFormIgnoresLastCancel(f) ==
  LET r == BuildRecord(build, f)
  IN IF ~f.ok \/ ~(f.ok1 /\ f.ok2 /\ f.ok3)
     THEN /\ UNCHANGED <<measurements, table, currentRow>>
          /\ last' = [op |-> "add", before |-> measurements,
                      input |-> f, outcome |-> "cancel"]
     ELSE IF r.ok
     THEN /\ measurements' = Append(measurements, r.val)
          /\ table' = update_table(measurements')
          /\ currentRow' = -1
          /\ last' = [op |-> "add", before |-> measurements,
                      input |-> f, outcome |-> "ok"]
     ELSE /\ UNCHANGED <<measurements, table, currentRow>>
          /\ last' = [op |-> "add", before |-> measurements,
                      input |-> f, outcome |-> "error", err |-> r.err]

\* add_measurement on the answers f of the prompts
AddForm(f) ==
  LET r == BuildRecord(build, f)
  IN IF Cancelled(f)
     THEN /\ UNCHANGED <<measurements, table, currentRow>>
          /\ last' = [op |-> "add", before |-> measurements,
                      input |-> f, outcome |-> "cancel"]
     ELSE IF r.ok
     THEN /\ measurements' = Append(measurements, r.val)
          /\ table' = update_table(measurements')
          /\ currentRow' = -1
          /\ last' = [op |-> "add", before |-> measurements,
                      input |-> f, outcome |-> "ok"]
     ELSE /\ UNCHANGED <<measurements, table, currentRow>>
          /\ last' = [op |-> "add", before |-> measurements,
                      input |-> f, outcome |-> "error", err |-> r.err]

AddMeasurement ==
  /\ Len(measurements) < MaxRecords
  /\ \E f \in Forms : AddForm(f)
  /\ UNCHANGED <<build, call>>

\* delete_selected on the row the table reports
DeleteRow(selected_row) ==
  IF selected_row >= 0
  THEN IF selected_row < Len(measurements)
       THEN /\ measurements' = Pop(measurements, selected_row)
            /\ table' = update_table(measurements')
            /\ currentRow' = -1
            /\ last' = [op |-> "delete", before |-> measurements,
                        input |-> selected_row, outcome |-> "ok"]
       ELSE /\ UNCHANGED <<measurements, table, currentRow>>
            /\ last' = [op |-> "delete", before |-> measurements,
                        input |-> selected_row, outcome |-> "IndexError"]
  ELSE /\ UNCHANGED <<measurements, table, currentRow>>
       /\ last' = [op |-> "delete", before |-> measurements,
                   input |-> selected_row, outcome |-> "none"]

DeleteSelected ==
  /\ DeleteRow(currentRow)
  /\ UNCHANGED <<build, call>>

\* the user makes a row of the table the current one
SelectRow ==
  /\ \E i \in 0..(Len(table) - 1) : currentRow' = i
  /\ UNCHANGED <<build, measurements, table, last, call>>

Next ==
  \/ LoadFile
  \/ LoadCancel
  \/ AddMeasurement
  \/ DeleteSelected
  \/ SelectRow

Spec == Init /\ [][Next]_vars

----------------------------------------------------------------------------
\* the parser on its own: one call per step

CallParseLine ==
  /\ call.fn = "none"
  /\ \E line \in Lines :
       call' = [fn |-> "parse_line", arg |-> line,
                result |-> parse_line(build, line)]
  /\ UNCHANGED <<build, measurements, table, currentRow, last>>

CallLoad ==
  /\ call.fn = "none"
  /\ \E file \in Files :
       call' = [fn |-> "load_measurements_from_file", arg |-> file,
                result |-> load_measurements_from_file(build, file)]
  /\ UNCHANGED <<build, measurements, table, currentRow, last>>

Return ==
  /\ call.fn # "none"
  /\ call' = [fn |-> "none"]
  /\ UNCHANGED <<build, measurements, table, currentRow, last>>

ParserNext == CallParseLine \/ CallLoad \/ Return

ParserSpec == Init /\ [][ParserNext]_vars

----------------------------------------------------------------------------
\* the properties

Dashed(text) == [i \in 1..Len(text) |-> IF text[i] = "." THEN "-" ELSE text[i]]
Dotted(text) == [i \in 1..Len(text) |-> IF text[i] = "-" THEN "." ELSE text[i]]

\* a text of the form dd.mm.yyyy names a day that exists
CalendarValid(text) ==
  NumVal(SubSeq(text, 1, 2))
    <= DaysInMonth(NumVal(SubSeq(text, 7, 10)), NumVal(SubSeq(text, 4, 5)))

FieldsOf(line) == Split(Strip(line), ";")

ParseCall == call.fn = "parse_line"
LoadCall == call.fn = "load_measurements_from_file" /\ call.arg.readable

KnownLabels == {NormalLabel, AbnormalLabel}

\* the lines of the last load_file, once a file was chosen and could be read
LoadedLines == last.input.lines
LoadRead == last.op = "load" /\ last.outcome # "cancel" /\ last.input.readable
AllParse(lines) == \A i \in 1..Len(lines) : parse_line(build, lines[i]).ok

\* C1: when a load fails (a line of the chosen file does not parse, also
\* after lines that did, or the file cannot be read), the collection after
\* load_file is the collection before it.
C1_FailedLoadKeepsCollection ==
  /\ last.op = "load"
  /\ last.outcome # "cancel"
  /\ ~last.input.readable \/ ~AllParse(LoadedLines)
  => measurements = last.before

C1_Witness ==
  /\ LoadRead
  /\ last.outcome = "error"
  /\ last.before # <<>>
  /\ Len(LoadedLines) >= 2
  /\ parse_line(build, LoadedLines[1]).ok
  /\ ~parse_line(build, LoadedLines[2]).ok

\* C2 as stated: for a line with at least 5 fields, a numeric field[3] and a
\* known label, parse_line fails with the invalid-date error exactly when
\* field[1] does not match the pattern, and a date that matches the pattern
\* is accepted, calendar-valid or not, and stored with dashes.  Stated of the
\* program that has the pattern, src/Lab1.1/main.py.
C2_Original ==
  LET F == FieldsOf(call.arg) IN
    /\ build = Lab
    /\ ParseCall
    /\ Len(F) >= 5
    /\ float(F[4]).ok
    /\ F[1] \in KnownLabels
    => /\ call.result = Raise("InvalidDateError") <=> ~PatternBody(F[2])
       /\ PatternBody(F[2]) =>
            call.result.ok /\ call.result.val.date = Dashed(F[2])

\* C2 amended: for such a line, a field[1] that matches the pattern is
\* accepted exactly when it names a day that exists, and is then stored with
\* dashes; one that matches and names no such day (31.02.2020) fails with
\* the error of the date conversion.  A field[1] that does not match the
\* pattern fails with the invalid-date error in src/Lab1.1/main.py; src/main.py
\* never raises that error.
C2_DateStage ==
  LET F == FieldsOf(call.arg) IN
    /\ ParseCall
    /\ Len(F) >= 5
    /\ float(F[4]).ok
    /\ F[1] \in KnownLabels
    => /\ PatternBody(F[2]) /\ CalendarValid(F[2]) =>
            call.result.ok /\ call.result.val.date = Dashed(F[2])
       /\ PatternBody(F[2]) /\ ~CalendarValid(F[2]) =>
            call.result = Raise("DateValueError")
       /\ build = Lab /\ ~PatternBody(F[2]) =>
            call.result = Raise("InvalidDateError")
       /\ build = Root => call.result # Raise("InvalidDateError")

C2_Witness ==
  /\ ParseCall
  /\ Len(FieldsOf(call.arg)) >= 5
  /\ FieldsOf(call.arg)[2] = DateFeb31
  /\ float(FieldsOf(call.arg)[4]).ok
  /\ FieldsOf(call.arg)[1] \in KnownLabels
  /\ call.result = Raise("DateValueError")

IsEmptyLine(line) == line \in {<<>>, Newline}
IsNonEmptyLine(line) == ~IsEmptyLine(line)

\* C3 as stated: load_measurements_from_file returns the parses of the
\* non-empty lines of the file, in file order; empty lines are skipped and
\* do not make the load fail.
C3_Original ==
  LoadCall =>
    LET ne == SelectSeq(call.arg.lines, IsNonEmptyLine) IN
      IF AllParse(ne)
      THEN call.result = Ok([i \in 1..Len(ne) |-> parse_line(build, ne[i]).val])
      ELSE ~call.result.ok

\* C3 amended: load_measurements_from_file parses every line of the file, in
\* file order: when all parse it returns their records in that order (the
\* empty sequence for an empty file), otherwise it raises the error of the
\* first line that does not parse; an empty line has fewer than five fields
\* and makes the load fail.
C3_EveryLineParsed ==
  LoadCall =>
    LET lines == call.arg.lines
        bad == {i \in 1..Len(lines) : ~parse_line(build, lines[i]).ok}
    IN /\ IF bad = {}
          THEN call.result
                 = Ok([i \in 1..Len(lines) |-> parse_line(build, lines[i]).val])
          ELSE call.result
                 = parse_line(build,
                              lines[CHOOSE i \in bad : \A j \in bad : i <= j])
       /\ (\E i \in 1..Len(lines) : IsEmptyLine(lines[i])) => ~call.result.ok
       /\ lines = <<>> => call.result = Ok(<<>>)

C3_Witness ==
  /\ LoadCall
  /\ Len(call.arg.lines) = 2
  /\ parse_line(build, call.arg.lines[1]).ok
  /\ IsEmptyLine(call.arg.lines[2])
  /\ call.result = Raise("MalformedLineError")

\* C4: for a line that parses, field[0] alone decides the variant: the label
\* of the normal measurement yields a normal record with sensor_type =
\* field[4], the label of the abnormal one an abnormal record with reason =
\* field[4], each with its own status; the fields after field[4] do not
\* change the result.
C4_DispatchOnLabel ==
  LET F == FieldsOf(call.arg)
      m == call.result.val
  IN ParseCall /\ call.result.ok =>
       /\ F[1] \in KnownLabels
       /\ F[1] = NormalLabel =>
            /\ m.cls = "NormalMeasurement"
            /\ m.sensor_type = F[5]
            /\ m.status = NormalLabel
       /\ F[1] = AbnormalLabel =>
            /\ m.cls = "AbnormalMeasurement"
            /\ m.reason = F[5]
            /\ m.status = AbnormalLabel
       /\ call.result = ParseFields(build, SubSeq(F, 1, 5))

C4_Witness ==
  LET F == FieldsOf(call.arg) IN
    /\ ParseCall
    /\ call.result.ok
    /\ Len(F) > 5
    /\ F[Len(F)] # F[5]
    /\ F[1] = AbnormalLabel

AllAnswered(f) == f.ok /\ f.ok1 /\ f.ok2 /\ f.ok3 /\ f.ok4

\* C5: when the add fails (the date is rejected) or a prompt is cancelled,
\* the collection after add_measurement is the collection before it; when it
\* succeeds, it is the collection before it with one record, made of the
\* answers, appended at the end.
C5_AddAppendsOneOrNothing ==
  last.op = "add" =>
    LET f == last.input
        n == Len(last.before)
        new == measurements[n + 1]
    IN IF ~AllAnswered(f) \/ ~ConvertDate(build, f.date).ok
       THEN measurements = last.before
       ELSE /\ Len(measurements) = n + 1
            /\ SubSeq(measurements, 1, n) = last.before
            /\ new.location = f.location
            /\ new.value = f.value
            /\ new.cls = (IF f.type_choice = "Normal" THEN "NormalMeasurement"
                          ELSE "AbnormalMeasurement")

C5_Witness ==
  /\ last.op = "add"
  /\ AllAnswered(last.input)
  /\ ~ConvertDate(build, last.input.date).ok
  /\ last.before # <<>>

\* C6: every record of the collection has the status of its variant, after
\* any sequence of loads, adds and deletes.
C6_StatusFollowsVariant ==
  \A i \in 1..Len(measurements) :
    /\ measurements[i].cls \in {"NormalMeasurement", "AbnormalMeasurement"}
    /\ measurements[i].cls = "NormalMeasurement"
         => measurements[i].status = NormalLabel
    /\ measurements[i].cls = "AbnormalMeasurement"
         => measurements[i].status = AbnormalLabel

C6_Witness ==
  /\ last.op = "delete"
  /\ last.outcome = "ok"
  /\ \E i \in 1..Len(last.before) : last.before[i].cls = "NormalMeasurement"
  /\ \E i \in 1..Len(measurements) :
       measurements[i].cls = "AbnormalMeasurement"

\* C7 as stated: every record of the collection has a date of the form
\* dd-mm-yyyy whose original dd.mm.yyyy satisfied the date pattern when it
\* was entered, in the entry form or in a loaded file.
C7_Original ==
  /\ \A i \in 1..Len(measurements) :
       PatternBody(Dotted(measurements[i].date))
  /\ last.op = "add" /\ last.outcome = "ok" =>
       /\ PatternBody(last.input.date)
       /\ measurements[Len(measurements)].date = Dashed(last.input.date)
  /\ last.op = "load" /\ last.outcome = "ok" =>
       \A i \in 1..Len(LoadedLines) :
         /\ PatternBody(FieldsOf(LoadedLines[i])[2])
         /\ measurements[i].date = Dashed(FieldsOf(LoadedLines[i])[2])

\* C8: a load that succeeds replaces the collection: after it the collection
\* is the sequence of the records parsed from the lines of the file, whatever
\* it held before.
C8_LoadReplacesCollection ==
  LoadRead /\ AllParse(LoadedLines) =>
    measurements
      = [i \in 1..Len(LoadedLines) |-> parse_line(build, LoadedLines[i]).val]

C8_Witness ==
  /\ LoadRead
  /\ last.outcome = "ok"
  /\ last.before # <<>>
  /\ measurements # <<>>
  /\ \A i \in 1..Len(last.before) : \A j \in 1..Len(measurements) :
       last.before[i] # measurements[j]

\* C9 as stated: parse_line checks the field count, the date, the value and
\* the label in this order, a bad date being one that does not match the
\* pattern: fewer than 5 fields fail with MalformedLineError, a bad date
\* with InvalidDateError, a good date and a non-numeric value with
\* ConversionError, and UnknownVariantError needs count, date and value good.
\* Stated of the program that has the pattern, src/Lab1.1/main.py.
C9_Original ==
  LET F == FieldsOf(call.arg) IN
    build = Lab /\ ParseCall =>
      /\ Len(F) < 5 => call.result = Raise("MalformedLineError")
      /\ Len(F) >= 5 /\ ~PatternBody(F[2]) =>
           call.result = Raise("InvalidDateError")
      /\ Len(F) >= 5 /\ PatternBody(F[2]) /\ ~float(F[4]).ok =>
           call.result = Raise("ConversionError")
      /\ call.result = Raise("UnknownVariantError") =>
           Len(F) >= 5 /\ PatternBody(F[2]) /\ float(F[4]).ok

\* C9 amended: parse_line checks the field count, the date, the value and the
\* label in this order and fails with the error of the first check that
\* fails, the date check being the whole date stage (the pattern where the
\* program has it, then the conversion): fewer than 5 fields fail with
\* MalformedLineError; a date the stage rejects fails with the error of the
\* stage, InvalidDateError only from the pattern of src/Lab1.1/main.py and the
\* error of the conversion otherwise, even if the value or the label is bad;
\* a date the stage accepts and a non-numeric value fail with
\* ConversionError even if the label is unknown; UnknownVariantError means
\* count, date and value are good.
C9_CheckOrder ==
  LET F == FieldsOf(call.arg)
      D == ConvertDate(build, F[2])
  IN ParseCall =>
       /\ Len(F) < 5 => call.result = Raise("MalformedLineError")
       /\ Len(F) >= 5 /\ ~D.ok =>
            /\ call.result = D
            /\ D.err \in {"InvalidDateError", "DateValueError"}
            /\ D.err = "InvalidDateError"
                 <=> build = Lab /\ ~PatternBody(F[2])
       /\ Len(F) >= 5 /\ D.ok /\ ~float(F[4]).ok =>
            call.result = Raise("ConversionError")
       /\ Len(F) >= 5 /\ D.ok /\ float(F[4]).ok /\ F[1] \notin KnownLabels =>
            call.result = Raise("UnknownVariantError")
       /\ call.result = Raise("UnknownVariantError") =>
            Len(F) >= 5 /\ D.ok /\ float(F[4]).ok

C9_Witness ==
  LET F == FieldsOf(call.arg) IN
    /\ ParseCall
    /\ Len(F) >= 5
    /\ ~ConvertDate(build, F[2]).ok
    /\ ~float(F[4]).ok
    /\ F[1] \notin KnownLabels
    /\ call.result = ConvertDate(build, F[2])

\* C10: after every load, add or delete the table mirrors the collection: as
\* many rows as records, row i showing to_table_row of record i.  So the row
\* delete_selected takes from the table is a position of the collection,
\* the delete removes the record at that position and keeps the others in
\* their order, and a delete with no current row changes nothing.
C10_TableMirrorsCollection ==
  /\ Len(table) = Len(measurements)
  /\ \A i \in 1..Len(table) : table[i] = to_table_row(measurements[i])
  /\ currentRow \in -1..(Len(measurements) - 1)
  /\ last.op = "delete" =>
       IF last.input >= 0
       THEN /\ last.input < Len(last.before)
            /\ Len(measurements) = Len(last.before) - 1
            /\ \A j \in 1..Len(measurements) :
                 measurements[j] = (IF j <= last.input THEN last.before[j]
                                    ELSE last.before[j + 1])
       ELSE measurements = last.before

C10_Witness ==
  /\ last.op = "delete"
  /\ last.input = 0
  /\ Len(last.before) = 2
  /\ last.before[1] # last.before[2]
  /\ measurements = <<last.before[2]>>

====
